---- MODULE Spec2Model ----
(***************************************************************************)
(* The options-chain backend (backend/server.js): the two request handlers *)
(* GET /api/options and GET /api/expiration-dates, as a state machine with *)
(* one step per stretch of handler code between two awaited fetches.       *)
(* The data provider is the environment: each price and catalog response   *)
(* is chosen when it returns, the paginated snapshot feed is fixed when    *)
(* its first page is requested.  A second specification, HelperSpec, calls *)
(* the helper functions (the percent computations, the market clock) on    *)
(* their own, on arguments drawn from small sets.                          *)
(* A third, UiSpec, is the page (App.jsx): its inputs, its effects and     *)
(* its fetches, which settle in any order.                                 *)
(***************************************************************************)
EXTENDS Integers, Sequences, FiniteSets, TLC

VARIABLES
    pc,                 \* where the handler stands: which fetch it awaits
    endpoint,           \* the route of the request being served
    apiKey,             \* process.env.POLYGON_API_KEY is set
    query,              \* req.query
    feed,               \* the provider's snapshot feed for the ticker
    marketOpen,         \* const marketOpen = isMarketOpen()
    underlyingPrice,    \* let underlyingPrice
    quoteData,          \* what the /prev source returned, if it was asked
    snapshotData,       \* what the stock snapshot source returned, if asked
    allStrikes,         \* const allStrikes (catalog strikes, ascending)
    contractsResponse,  \* let contractsResponse: the catalog's answer, if any
    allContracts,       \* let allContracts
    allSnapshotResults, \* let allSnapshotResults
    nextUrl,            \* let nextUrl
    urlToFetch,         \* let urlToFetch (the URL of the last page request)
    pageCount,          \* let pageCount
    enrichedOptions,    \* const enrichedOptions (sorted, before the window)
    responses,          \* the HTTP responses sent on res, in order
    issued,             \* upstream requests issued so far, per kind
    returned,           \* upstream requests that have answered, per kind
    call,               \* a helper function called on its own: arguments, result
    ui                  \* the page (App.jsx): its state, its timer, its fetches

vars == << pc, endpoint, apiKey, query, feed, marketOpen, underlyingPrice,
           quoteData, snapshotData, allStrikes, contractsResponse, allContracts,
           allSnapshotResults, nextUrl, urlToFetch, pageCount,
           enrichedOptions, responses, issued, returned, call, ui >>

-----------------------------------------------------------------------------
(* Values.  A JavaScript value that may be null or undefined is a sequence *)
(* of length at most one.                                                  *)

Null == << >>

Some(v) == << v >>

\* if (x): a number is truthy unless it is null, undefined or 0
Truthy(x) == x # Null /\ x[1] # 0

\* x !== undefined && x !== null
Present(x) == x # Null

\* x || 0
OrZero(x) == IF Truthy(x) THEN x[1] ELSE 0

\* String.prototype.toLowerCase on the contract types that occur
toLowerCase(s) ==
    CASE s = "CALL" -> "call"
      [] s = "PUT"  -> "put"
      [] OTHER      -> s

\* Array.prototype.slice(0, n)
Slice(s, n) == SubSeq(s, 1, IF Len(s) < n THEN Len(s) ELSE n)

\* Array.prototype.sort with a comparator on a number: stable.  keys[i] is
\* the number the comparator reads from s[i]; ascending = TRUE is
\* (a, b) => a - b, FALSE is (a, b) => b - a.
SortByKey(s, keys, ascending) ==
    LET Before(a, b) == IF ascending THEN a <= b ELSE a >= b
        Insert(t, i) ==
            LET pos == Cardinality({ j \in 1..Len(t) : Before(keys[t[j]], keys[i]) })
            IN  SubSeq(t, 1, pos) \o << i >> \o SubSeq(t, pos + 1, Len(t))
        F[i \in 0..Len(s)] == IF i = 0 THEN << >> ELSE Insert(F[i - 1], i)
        order == F[Len(s)]
    IN  [ i \in 1..Len(s) |-> s[order[i]] ]

\* o => o.details.strike_price, over a sequence of snapshots
SnapshotStrikes(s) == [ i \in 1..Len(s) |-> s[i].details.strike_price ]

\* o => o.strikePrice, over a sequence of enriched options
OptionStrikes(s) == [ i \in 1..Len(s) |-> s[i].strikePrice ]

Range(s) == { s[i] : i \in 1..Len(s) }

-----------------------------------------------------------------------------
(* JavaScript numbers where a division is involved: a fraction num / den   *)
(* with den > 0, or, with den = 0, NaN (num = 0), Infinity (num = 1) or    *)
(* -Infinity (num = -1).                                                   *)

Num(n) == [ num |-> n, den |-> 1 ]

NaN == [ num |-> 0, den |-> 0 ]

Infinity == [ num |-> 1, den |-> 0 ]

NegInfinity == [ num |-> -1, den |-> 0 ]

\* Number.isFinite
IsFinite(x) == x.den # 0

\* Number.isNaN
IsNaN(x) == x.den = 0 /\ x.num = 0

Sign(n) == IF n < 0 THEN -1 ELSE IF n > 0 THEN 1 ELSE 0

\* a - b
Minus(a, b) ==
    IF IsNaN(a) \/ IsNaN(b) THEN NaN
    ELSE IF ~IsFinite(a)
    THEN IF ~IsFinite(b) /\ a.num = b.num THEN NaN ELSE a
    ELSE IF ~IsFinite(b) THEN [ num |-> -b.num, den |-> 0 ]
    ELSE [ num |-> a.num * b.den - b.num * a.den, den |-> a.den * b.den ]

\* a / b
Divide(a, b) ==
    IF IsNaN(a) \/ IsNaN(b) THEN NaN
    ELSE IF ~IsFinite(a)
    THEN IF ~IsFinite(b) THEN NaN
         ELSE [ num |-> IF b.num < 0 THEN -a.num ELSE a.num, den |-> 0 ]
    ELSE IF ~IsFinite(b) THEN Num(0)
    ELSE IF b.num = 0 THEN [ num |-> Sign(a.num), den |-> 0 ]
    ELSE [ num |-> a.num * b.den * Sign(b.num),
           den |-> a.den * b.num * Sign(b.num) ]

\* a * b
Times(a, b) ==
    IF IsNaN(a) \/ IsNaN(b) THEN NaN
    ELSE IF ~IsFinite(a) \/ ~IsFinite(b)
    THEN [ num |-> Sign(a.num) * Sign(b.num), den |-> 0 ]
    ELSE [ num |-> a.num * b.num, den |-> a.den * b.den ]

\* !x, for a number that may be missing: null, undefined, NaN and 0
Falsy(x) == x = Null \/ IsNaN(x[1]) \/ (IsFinite(x[1]) /\ x[1].num = 0)

-----------------------------------------------------------------------------
(* Program constants and the bounds of the environment.                    *)

\* const maxPages = 100
maxPages == 100

\* .slice(0, 10): the strikes kept on each side of the price
halfWidth == 10

\* The provider lists strikes MidStrike-Spread+1 .. MidStrike+Spread.
MidStrike == 100

Spread == 12

\* Snapshots per page of a feed that needs several pages for a full chain.
PageSize == 40

\* Snapshots per page of a feed whose cursors never end.
CursorPageSize == 1

\* Snapshots per page of a feed that returns the chain in one page.
PageLimit == 250

\* The page at which a pathological feed may answer with an error.
LateFailure == 3

\* The expiration dates the chain lists (YYYY-MM-DD, compared as strings:
\* the order of the digits), and one it does not list.
ExpirationDates == << 20260109, 20260116 >>

UnlistedDate == << 20260102 >>

ContractTypes == << "call", "put" >>

\* The strikes a chain lists, ascending: none, three around MidStrike, or
\* more than halfWidth on each side of it.
FullChain == [ i \in 1..(2 * Spread) |-> MidStrike - Spread + i ]

NearChain == [ i \in 1..3 |-> MidStrike - 2 + i ]

StrikeLists == { << >>, NearChain, FullChain }

-----------------------------------------------------------------------------
(* The data provider.                                                      *)

\* A contract symbol encodes expiration, type and strike (O:AAPL260109C00100000).
ContractTicker(exp, type, strike) == << exp, type, strike >>

\* The day bar of a snapshot.  Each of its fields may be missing.
DayBar(strike) ==
    [ bid            |-> CASE strike % 3 = 0 -> Null
                           [] strike % 3 = 1 -> Some(0)
                           [] OTHER          -> Some(2),
      ask            |-> IF strike % 2 = 0 THEN Some(4) ELSE Null,
      close          |-> IF strike % 4 = 0 THEN Null ELSE Some(3),
      previous_close |-> IF strike % 5 = 0 THEN Null ELSE Some(1),
      open           |-> IF strike % 3 = 2 THEN Null ELSE Some(3),
      high           |-> IF strike % 4 = 1 THEN Null ELSE Some(5),
      low            |-> IF strike % 4 = 2 THEN Null ELSE Some(1),
      volume         |-> IF strike % 2 = 1 THEN Null ELSE Some(strike % 7) ]

\* The greeks of a snapshot, each of which may be missing.
Greeks(strike) ==
    [ delta |-> IF strike % 3 = 1 THEN Null ELSE Some(strike % 3),
      gamma |-> IF strike % 4 = 3 THEN Null ELSE Some(1),
      theta |-> IF strike % 5 = 1 THEN Null ELSE Some(-1),
      vega  |-> IF strike % 5 = 2 THEN Null ELSE Some(2) ]

\* A snapshot.  Its greeks may be missing, and so may its day bar, in a
\* feed of the "noDayBar" kind, for the contracts at MidStrike.
Snapshot(exp, type, strike, quirk) ==
    [ details |-> [ ticker          |-> ContractTicker(exp, type, strike),
                    strike_price    |-> strike,
                    expiration_date |-> exp,
                    contract_type   |-> type ],
      day     |-> IF quirk = "noDayBar" /\ strike = MidStrike
                  THEN Null ELSE Some(DayBar(strike)),
      open_interest      |-> IF strike % 3 = 0 THEN Null ELSE Some(strike % 4),
      implied_volatility |-> IF strike % 4 = 0 THEN Null ELSE Some(strike % 3),
      greeks  |-> IF strike % 2 = 1 THEN Null ELSE Some(Greeks(strike)) ]

\* The whole chain of a ticker in the provider's order: by symbol, that is
\* by expiration, then type, then strike; the later expiration first in a
\* feed of the "latestFirst" kind.
ChainSeq(strikes, quirk) ==
    LET n == Len(strikes)
        dates == IF quirk = "latestFirst"
                 THEN << ExpirationDates[2], ExpirationDates[1] >>
                 ELSE ExpirationDates
    IN  [ i \in 1..(4 * n) |->
            Snapshot(dates[((i - 1) \div (2 * n)) + 1],
                     ContractTypes[(((i - 1) \div n) % 2) + 1],
                     strikes[((i - 1) % n) + 1],
                     quirk) ]

\* A URL is the page it addresses and the tokens of its query string.
Url(page, parts) == [ page |-> page, parts |-> parts ]

\* const polygonUrl = `.../v3/snapshot/options/${ticker}?apiKey=${API_KEY}`
polygonUrl == Url(1, << "?", "apiKey" >>)

\* The provider's next_url for page p: a cursor, with or without a query
\* string, and with or without a key of its own.
CursorUrl(p) ==
    Url(p, CASE p % 3 = 0 -> << >>
             [] p % 3 = 1 -> << "?", "cursor", "&", "apiKey" >>
             [] OTHER     -> << "?", "cursor" >>)

\* A feed: the strikes of the chain, the page size, what follows the last
\* page ("end": nothing, "cycle": the first page again, "endless": empty
\* pages with a cursor, for ever), the page that fails (0: none), how it
\* fails ("status": a non-success status, "threw": fetch() rejects) and
\* what is unusual about its snapshots.
Feeds ==
    [ strikes : StrikeLists, pageSize : { PageSize, PageLimit },
      tail : { "end" }, failAt : 0..2, failure : { "status", "threw" },
      quirk : { "none" } ]
    \cup
    [ strikes : { NearChain }, pageSize : { CursorPageSize },
      tail : { "cycle", "endless" }, failAt : { 0, LateFailure },
      failure : { "status" }, quirk : { "none" } ]
    \cup
    [ strikes : { NearChain }, pageSize : { PageLimit },
      tail : { "end" }, failAt : { 0 }, failure : { "status" },
      quirk : { "latestFirst", "noDayBar" } ]

NoFeed ==
    [ strikes |-> << >>, pageSize |-> PageLimit, tail |-> "end", failAt |-> 0,
      failure |-> "status", quirk |-> "none" ]

PagesOf(f) ==
    LET n == 4 * Len(f.strikes)
    IN  IF n = 0 THEN 1 ELSE (n + f.pageSize - 1) \div f.pageSize

\* The provider's answer to a snapshot page request.  The text of a
\* failure names the page, so that two failures can be told apart.
FeedResponse(f, url) ==
    LET p     == url.page
        chain == ChainSeq(f.strikes, f.quirk)
        last  == PagesOf(f)
        lo    == (p - 1) * f.pageSize + 1
        hi    == IF p * f.pageSize < Len(chain) THEN p * f.pageSize ELSE Len(chain)
    IN  IF p = f.failAt /\ f.failure = "threw"
        THEN [ threw |-> TRUE, ok |-> FALSE, status |-> 0, text |-> << >>,
               results |-> << >>, next_url |-> Null ]
        ELSE IF "apiKey" \notin Range(url.parts)
        THEN [ threw |-> FALSE, ok |-> FALSE, status |-> 401,
               text |-> << "unauthorized", p >>,
               results |-> << >>, next_url |-> Null ]
        ELSE IF p = f.failAt
        THEN [ threw |-> FALSE, ok |-> FALSE,
               status |-> IF p % 2 = 1 THEN 429 ELSE 503,
               text |-> << "page failed", p >>,
               results |-> << >>, next_url |-> Null ]
        ELSE [ threw |-> FALSE, ok |-> TRUE, status |-> 200, text |-> << >>,
               results  |-> IF p <= last THEN SubSeq(chain, lo, hi) ELSE << >>,
               next_url |-> CASE p < last           -> Some(CursorUrl(p + 1))
                              [] f.tail = "end"     -> Null
                              [] f.tail = "cycle"   -> Some(CursorUrl(1))
                              [] OTHER              -> Some(CursorUrl(p + 1)) ]

\* /v2/aggs/ticker/{ticker}/prev: the previous day's bar, if any.
PrevResponses ==
    { [ threw |-> TRUE,  ok |-> FALSE, results |-> << >> ],
      [ threw |-> FALSE, ok |-> FALSE, results |-> << >> ],
      [ threw |-> FALSE, ok |-> TRUE,  results |-> << >> ] }
    \cup
    { [ threw |-> FALSE, ok |-> TRUE, results |-> << [ bp |-> b, c |-> c ] >> ] :
        b \in { Null, Some(0), Some(MidStrike + 1) },
        c \in { Null, Some(0), Some(MidStrike) } }

\* /v2/snapshot/locale/us/markets/stocks/tickers/{ticker}
SnapshotResponses ==
    [ threw : BOOLEAN, ok : { FALSE }, lastQuote : { Null }, day : { Null },
      lastTrade : { Null } ]
    \cup
    [ threw : { FALSE }, ok : { TRUE },
      lastQuote : { Null, Some([ bp |-> Null ]), Some([ bp |-> Some(MidStrike + 1) ]) },
      day       : { Null, Some([ c |-> Some(MidStrike) ]) },
      lastTrade : { Null, Some([ p |-> MidStrike ]), Some([ p |-> MidStrike + 1 ]) } ]

\* /v3/reference/options/contracts for the requested expiration and type
CatalogContract(exp, type, strike) ==
    [ ticker |-> ContractTicker(exp, type, strike), strike_price |-> strike ]

CatalogResponses(exp, type) ==
    [ threw : BOOLEAN, ok : { FALSE }, results : { << >> } ]
    \cup
    { [ threw |-> FALSE, ok |-> TRUE,
        results |-> [ i \in 1..Len(S) |->
                        CatalogContract(exp, toLowerCase(type), S[i]) ] ] :
        S \in StrikeLists }

-----------------------------------------------------------------------------
(* The market clock.  An instant is given by the wall clock of New York at *)
(* that instant, the weekday (0 = Sunday) and the minute of the day; the   *)
(* time zone of the server by the minutes its wall clock is ahead of New   *)
(* York's.                                                                 *)

\* Lines 14-33: the weekday is the server's (now.getDay()), the time of day
\* is New York's (toLocaleString with timeZone 'America/New_York').
isMarketOpen(now, zone) ==
    LET serverClock  == (now.day * 1440 + now.minutes + zone) % (7 * 1440)
        day          == serverClock \div 1440
        totalMinutes == now.minutes
    IN  IF day = 0 \/ day = 6
        THEN FALSE
        ELSE totalMinutes >= 570 /\ totalMinutes < 960

-----------------------------------------------------------------------------
(* The pure parts of the /api/options handler.                             *)

\* Lines 90-100: the price the /prev source gives.
PriceFromPrev(r, mOpen) ==
    IF r.ok /\ Len(r.results) > 0
    THEN IF mOpen /\ Present(r.results[1].bp)
         THEN r.results[1].bp
         ELSE r.results[1].c
    ELSE Null

\* Lines 107-117: the price after the stock snapshot source was asked.
PriceFromSnapshot(r, mOpen, price) ==
    IF r.ok /\ Present(r.lastQuote)
    THEN IF mOpen /\ Truthy(r.lastQuote[1].bp)
         THEN r.lastQuote[1].bp
         ELSE IF Present(r.day) /\ Truthy(r.day[1].c)
              THEN r.day[1].c
              ELSE price
    ELSE price

\* Line 144: allContracts.map(c => c.strike_price).sort((a, b) => a - b)
StrikesOf(contracts) ==
    LET strikes == [ i \in 1..Len(contracts) |-> contracts[i].strike_price ]
    IN  SortByKey(strikes, strikes, TRUE)

\* Lines 151-152: the two sides of the price.  A strike equal to the price
\* is on the at-or-above side.
IsBelow(strike, price) == strike < price

\* The slice of lines 154-155, 432 and 434, had it kept one entry more.
Nearest_OneMore(side) == Slice(side, halfWidth + 1)

\* Lines 154-155, 432, 434: .slice(0, 10)
Nearest(side) == Slice(side, halfWidth)

\* Line 151, had the strikes below the price been sorted ascending.
StrikesBelow_Ascending(strikes, price) ==
    LET Below(x) == IsBelow(x, price)
        side == SelectSeq(strikes, Below)
    IN  SortByKey(side, side, TRUE)

\* Line 151: allStrikes.filter(s => s < underlyingPrice).sort((a, b) => b - a)
StrikesBelow(strikes, price) ==
    LET Below(x) == IsBelow(x, price)
        side == SelectSeq(strikes, Below)
    IN  SortByKey(side, side, FALSE)

\* Line 152: allStrikes.filter(s => s >= underlyingPrice).sort((a, b) => a - b)
StrikesAtOrAbove(strikes, price) ==
    LET AtOrAbove(x) == ~IsBelow(x, price)
        side == SelectSeq(strikes, AtOrAbove)
    IN  SortByKey(side, side, TRUE)

\* Lines 151-156: the strikes around the price that become targets.
TargetStrikes(strikes, price) ==
    LET selectedBelow == Nearest(StrikesBelow(strikes, price))
        selectedAbove == Nearest(StrikesAtOrAbove(strikes, price))
        selected      == selectedBelow \o selectedAbove
    IN  SortByKey(selected, selected, TRUE)

\* Lines 141-163: the contracts kept from a catalog that answered.
TargetContracts(results, price) ==
    IF Len(results) > 0 /\ Truthy(price)
    THEN LET targetStrikes == TargetStrikes(StrikesOf(results), price[1])
             IsTarget(c)   == c.strike_price \in Range(targetStrikes)
         IN  SelectSeq(results, IsTarget)
    ELSE results

\* Lines 253-289, had the target contracts been matched by strike price
\* instead of by contract symbol.
FilteredOptions_ByStrike(results, contracts, expirationDate, contractType) ==
    LET targetStrikes == { contracts[i].strike_price : i \in 1..Len(contracts) }
        ByStrike(o)   == o.details.strike_price \in targetStrikes
        ByDateAndType(o) ==
            /\ o.details.expiration_date = expirationDate
            /\ toLowerCase(o.details.contract_type) = toLowerCase(contractType)
        matched == IF Len(contracts) > 0
                   THEN SelectSeq(results, ByStrike)
                   ELSE SelectSeq(results, ByDateAndType)
    IN  SortByKey(matched, SnapshotStrikes(matched), FALSE)

\* Lines 253-289, had the fallback compared the contract types as written.
FilteredOptions_CaseSensitive(results, contracts, expirationDate, contractType) ==
    LET targetTickers == { contracts[i].ticker : i \in 1..Len(contracts) }
        ByTicker(o)   == o.details.ticker \in targetTickers
        ByDateAndType(o) ==
            /\ o.details.expiration_date = expirationDate
            /\ o.details.contract_type = contractType
        matched == IF Len(contracts) > 0
                   THEN SelectSeq(results, ByTicker)
                   ELSE SelectSeq(results, ByDateAndType)
    IN  SortByKey(matched, SnapshotStrikes(matched), FALSE)

\* Lines 253-289, had the snapshots always been matched by expiration date
\* and contract type, target contracts or not.
FilteredOptions_ByDateAndType(results, contracts, expirationDate, contractType) ==
    LET ByDateAndType(o) ==
            /\ o.details.expiration_date = expirationDate
            /\ toLowerCase(o.details.contract_type) = toLowerCase(contractType)
        matched == SelectSeq(results, ByDateAndType)
    IN  SortByKey(matched, SnapshotStrikes(matched), FALSE)

\* Lines 253-289: the snapshots that match the request, highest strike first.
FilteredOptions(results, contracts, expirationDate, contractType) ==
    LET targetTickers == { contracts[i].ticker : i \in 1..Len(contracts) }
        ByTicker(o)   == o.details.ticker \in targetTickers
        ByDateAndType(o) ==
            /\ o.details.expiration_date = expirationDate
            /\ toLowerCase(o.details.contract_type) = toLowerCase(contractType)
        matched == IF Len(contracts) > 0
                   THEN SelectSeq(results, ByTicker)
                   ELSE SelectSeq(results, ByDateAndType)
    IN  SortByKey(matched, SnapshotStrikes(matched), FALSE)

\* Lines 36-41, had the bid been tested for truth: a bid of 0 not used.
getOptionPrice_Truthy(day, mOpen) ==
    IF mOpen /\ Truthy(day.bid) THEN day.bid[1] ELSE OrZero(day.close)

\* Lines 36-41
getOptionPrice(day, mOpen) ==
    IF mOpen /\ Present(day.bid) THEN day.bid[1] ELSE OrZero(day.close)

\* Lines 44-46
calculateBreakevenCall(strikePrice, optionPrice) == strikePrice + optionPrice

\* Lines 49-51, had the premium been added as for a call.
calculateBreakevenPut_Added(strikePrice, optionPrice) == strikePrice + optionPrice

\* Lines 49-51
calculateBreakevenPut(strikePrice, optionPrice) == strikePrice - optionPrice

\* Lines 54-57.  previous may be missing.
calculatePercentChange(current, previous) ==
    IF Falsy(previous) \/ (IsFinite(previous[1]) /\ previous[1].num = 0)
    THEN Num(0)
    ELSE Times(Divide(Minus(current, previous[1]), previous[1]), Num(100))

\* Lines 60-63.  currentPrice may be missing.
calculateToBreakeven(currentPrice, breakevenPrice) ==
    IF Falsy(currentPrice) \/ (IsFinite(currentPrice[1]) /\ currentPrice[1].num = 0)
    THEN Num(0)
    ELSE Times(Divide(Minus(breakevenPrice, currentPrice[1]), currentPrice[1]),
               Num(100))

\* option.greeks?.delta and the like: a greek of a snapshot, if it has any
Greek(option, name) ==
    IF Present(option.greeks) THEN option.greeks[1][name] ELSE Null

\* Lines 339-347: option.day.bid and the like throw a TypeError when the
\* snapshot has no day bar.
EnrichThrows(option) == ~Present(option.day)

\* Lines 336-388: the record built from one matched snapshot that has a day
\* bar.
Enrich(option, contractType, price, mOpen) ==
    LET day           == option.day[1]
        strikePrice   == option.details.strike_price
        optionPrice   == getOptionPrice(day, mOpen)
        previousClose == OrZero(day.previous_close)
        breakeven     == IF toLowerCase(contractType) = "call"
                         THEN calculateBreakevenCall(strikePrice, optionPrice)
                         ELSE calculateBreakevenPut(strikePrice, optionPrice)
    IN  [ strikePrice    |-> strikePrice,
          optionPrice    |-> optionPrice,
          askPrice       |-> IF Present(day.ask) THEN day.ask[1]
                             ELSE OrZero(day.close),
          bidPrice       |-> day.bid,
          breakeven      |-> breakeven,
          toBreakeven    |-> IF Truthy(price)
                             THEN calculateToBreakeven(Some(Num(price[1])),
                                                       Num(breakeven))
                             ELSE Num(0),
          priceChange    |-> optionPrice - previousClose,
          percentChange  |-> calculatePercentChange(Num(optionPrice),
                                                    Some(Num(previousClose))),
          open           |-> OrZero(day.open),
          high           |-> OrZero(day.high),
          low            |-> OrZero(day.low),
          volume         |-> OrZero(day.volume),
          openInterest   |-> OrZero(option.open_interest),
          impliedVolatility |-> OrZero(option.implied_volatility),
          delta          |-> OrZero(Greek(option, "delta")),
          gamma          |-> OrZero(Greek(option, "gamma")),
          theta          |-> OrZero(Greek(option, "theta")),
          vega           |-> OrZero(Greek(option, "vega")),
          ticker         |-> option.details.ticker,
          expirationDate |-> option.details.expiration_date,
          contractType   |-> option.details.contract_type ]

\* Lines 336-391: every matched snapshot enriched, highest strike first.
EnrichedOptions(filtered, contractType, price, mOpen) ==
    LET enriched == [ i \in 1..Len(filtered) |->
                        Enrich(filtered[i], contractType, price, mOpen) ]
    IN  SortByKey(enriched, OptionStrikes(enriched), FALSE)

\* Lines 424 and 428: the options below the price, nearest first.
OptionsBelow(enriched, price) ==
    LET Below(o) == IsBelow(o.strikePrice, price)
        side     == SelectSeq(enriched, Below)
    IN  SortByKey(side, OptionStrikes(side), FALSE)

\* Lines 425 and 429, had a strike equal to the price been left out.
OptionsAtOrAbove_Strict(enriched, price) ==
    LET Above(o) == o.strikePrice > price
        side     == SelectSeq(enriched, Above)
    IN  SortByKey(side, OptionStrikes(side), TRUE)

\* Lines 425 and 429: the options at or above the price, nearest first.
OptionsAtOrAbove(enriched, price) ==
    LET AtOrAbove(o) == ~IsBelow(o.strikePrice, price)
        side         == SelectSeq(enriched, AtOrAbove)
    IN  SortByKey(side, OptionStrikes(side), TRUE)

\* Line 437, had the combined selections not been sorted.
Combined_Unsorted(selectedBelow, selectedAbove) == selectedBelow \o selectedAbove

\* Line 437: [...selectedBelow, ...selectedAbove].sort(descending)
Combined(selectedBelow, selectedAbove) ==
    LET selected == selectedBelow \o selectedAbove
    IN  SortByKey(selected, OptionStrikes(selected), FALSE)

\* Lines 406-444, had a missing price been windowed around as a price of 0.
FilteredEnrichedOptions_NullAsZero(enriched, price) ==
    IF Len(enriched) > 0
    THEN Combined(Nearest(OptionsBelow(enriched, OrZero(price))),
                  Nearest(OptionsAtOrAbove(enriched, OrZero(price))))
    ELSE enriched

\* Lines 406-444: the options of the response.
FilteredEnrichedOptions(enriched, price) ==
    IF Truthy(price) /\ Len(enriched) > 0
    THEN Combined(Nearest(OptionsBelow(enriched, price[1])),
                  Nearest(OptionsAtOrAbove(enriched, price[1])))
    ELSE enriched

\* The loop condition of line 184, off by one.
LoopContinues_OffByOne(url, count) == Present(url) /\ count <= maxPages

\* Line 184: while (nextUrl && pageCount < maxPages)
LoopContinues(url, count) == Present(url) /\ count < maxPages

\* Lines 189-195, had the API key been appended to every URL.
UrlToFetch_AlwaysAppended(url) ==
    LET separator == IF "?" \in Range(url.parts) THEN "&" ELSE "?"
    IN  Url(url.page, url.parts \o << separator, "apiKey" >>)

\* Lines 189-195: the URL of a page request, the API key appended when the
\* URL does not carry one.
UrlToFetch(url) ==
    IF "apiKey" \notin Range(url.parts)
    THEN LET separator == IF "?" \in Range(url.parts) THEN "&" ELSE "?"
         IN  Url(url.page, url.parts \o << separator, "apiKey" >>)
    ELSE url

-----------------------------------------------------------------------------
(* Requests.                                                               *)

OptionsQueries ==
    [ ticker         : { Null, Some("AAPL") },
      expirationDate : { Null, Some(ExpirationDates[1]), UnlistedDate },
      contractType   : { Null, Some("call"), Some("PUT") } ]

ExpirationDatesQueries ==
    [ ticker : { Null, Some("AAPL") }, expirationDate : { Null },
      contractType : { Null } ]

NoQuery == [ ticker |-> Null, expirationDate |-> Null, contractType |-> Null ]

NoRequests == [ prev |-> 0, snapshot |-> 0, contracts |-> 0, page |-> 0 ]

\* No helper function is being called on its own.
NoCall == [ fn |-> "none", args |-> << >>, result |-> Null ]

\* The server before a request, its API key configured or not.
Idle(key) ==
    /\ pc = "idle"
    /\ endpoint = "none"
    /\ apiKey = key
    /\ query = NoQuery
    /\ feed = NoFeed
    /\ marketOpen = FALSE
    /\ underlyingPrice = Null
    /\ quoteData = Null
    /\ snapshotData = Null
    /\ allStrikes = << >>
    /\ contractsResponse = Null
    /\ allContracts = << >>
    /\ allSnapshotResults = << >>
    /\ nextUrl = Null
    /\ urlToFetch = Null
    /\ pageCount = 0
    /\ enrichedOptions = << >>
    /\ responses = << >>
    /\ issued = NoRequests
    /\ returned = NoRequests

\* Lines 5-16 of App.jsx and the effects of the first render (lines 47-78):
\* the page as mounted, its debounce timer pending with the empty ticker.
\* expirationDate '' is Null; fetching holds the fetches that have not
\* settled and fetched counts the fetches started.
Page ==
    [ ticker          |-> "",
      debouncedTicker |-> "",
      expirationDate  |-> Null,
      contractType    |-> "call",
      expirationDates |-> << >>,
      options         |-> << >>,
      underlyingPrice |-> Null,
      underlying      |-> Null,
      loading         |-> FALSE,
      error           |-> Null,
      marketOpen      |-> FALSE,
      timer           |-> Some(""),
      fetching        |-> { },
      fetched         |-> 0 ]

Init ==
    /\ \E key \in BOOLEAN : Idle(key)
    /\ call = NoCall
    /\ ui = Page

\* An error answer, had nothing been sent for it.
SendError_Silent(status, error) == UNCHANGED responses

\* res.status(status).json({ error })
SendError(status, error) ==
    responses' = Append(responses, [ status |-> status, error |-> error ])

\* A fetch, had a second request of the kind been issued with it.
Fetch_Pair(kind, label) ==
    /\ issued' = [ issued EXCEPT ![kind] = @ + 2 ]
    /\ pc' = label

\* await fetch(...): the request leaves and the handler waits at label.
Fetch(kind, label) ==
    /\ issued' = [ issued EXCEPT ![kind] = @ + 1 ]
    /\ pc' = label

\* The awaited fetch of this kind has settled.
Settled(kind) == returned' = [ returned EXCEPT ![kind] = @ + 1 ]

\* The handler returns without a further fetch.
Return ==
    /\ pc' = "done"
    /\ UNCHANGED issued

\* Lines 452-455 and 511-514: the catch of a handler.
Catch(error) ==
    /\ SendError(500, error)
    /\ Return

\* The check of line 70, had it tested the ticker alone.
MissingParameters_TickerOnly(q) == ~Present(q.ticker)

\* Line 70: !ticker || !expirationDate || !contractType
MissingParameters(q) ==
    ~Present(q.ticker) \/ ~Present(q.expirationDate) \/ ~Present(q.contractType)

\* The check of lines 77 and 468, had it been left out.
ApiKeyMissing_Unchecked == FALSE

\* Lines 76-77 and 467-468: !API_KEY
ApiKeyMissing == ~apiKey

\* The check of lines 201 and 476, had the status been ignored.
NotOk_Ignored(response) == FALSE

\* Lines 201 and 476: !response.ok
NotOk(response) == ~response.ok

\* Lines 66-89: app.get('/api/options') up to the first fetch.
OptionsRequest(q, mOpen) ==
    /\ pc = "idle"
    /\ endpoint' = "options"
    /\ query' = q
    /\ IF MissingParameters(q)
       THEN /\ SendError(400, << "Missing required parameters" >>)
            /\ Return
            /\ UNCHANGED marketOpen
       ELSE IF ApiKeyMissing
       THEN /\ SendError(500, << "API key not configured" >>)
            /\ Return
            /\ UNCHANGED marketOpen
       ELSE /\ marketOpen' = mOpen
            /\ Fetch("prev", "awaitPrev")
            /\ UNCHANGED responses
    /\ UNCHANGED << apiKey, feed, underlyingPrice, quoteData, snapshotData,
                    allStrikes, contractsResponse, allContracts,
                    allSnapshotResults, nextUrl, urlToFetch, pageCount,
                    enrichedOptions, returned, call, ui >>

\* Lines 89-106 and 119-121: the /prev source answers; the snapshot source is
\* asked when it gave no price.  A rejected fetch ends the price resolution.
PrevReturns(r) ==
    /\ pc = "awaitPrev"
    /\ Settled("prev")
    /\ quoteData' = Some(r)
    /\ IF r.threw
       THEN /\ pc' = "priceResolved"
            /\ UNCHANGED << underlyingPrice, issued >>
       ELSE /\ underlyingPrice' = PriceFromPrev(r, marketOpen)
            /\ IF ~Truthy(underlyingPrice')
               THEN Fetch("snapshot", "awaitSnapshot")
               ELSE /\ pc' = "priceResolved"
                    /\ UNCHANGED issued
    /\ UNCHANGED << endpoint, apiKey, query, feed, marketOpen, snapshotData,
                    allStrikes, contractsResponse, allContracts,
                    allSnapshotResults, nextUrl, urlToFetch, pageCount,
                    enrichedOptions, responses, call, ui >>

\* Lines 104-121: the stock snapshot source answers.
SnapshotReturns(r) ==
    /\ pc = "awaitSnapshot"
    /\ Settled("snapshot")
    /\ snapshotData' = Some(r)
    /\ underlyingPrice' = IF r.threw THEN underlyingPrice
                          ELSE PriceFromSnapshot(r, marketOpen, underlyingPrice)
    /\ pc' = "priceResolved"
    /\ UNCHANGED << endpoint, apiKey, query, feed, marketOpen, quoteData,
                    allStrikes, contractsResponse, allContracts,
                    allSnapshotResults, nextUrl, urlToFetch, pageCount,
                    enrichedOptions, responses, issued, call, ui >>

\* Lines 123-131: the catalog is asked; the locals of the price resolution
\* are out of scope.
FetchContracts ==
    /\ pc = "priceResolved"
    /\ quoteData' = Null
    /\ snapshotData' = Null
    /\ Fetch("contracts", "awaitContracts")
    /\ UNCHANGED << endpoint, apiKey, query, feed, marketOpen, underlyingPrice,
                    allStrikes, contractsResponse, allContracts,
                    allSnapshotResults, nextUrl, urlToFetch, pageCount,
                    enrichedOptions, responses, returned, call, ui >>

\* Lines 184-199: the head of the pagination loop and its fetch, or
\* lines 224-450 once the loop is left: filter, answer with no options when
\* nothing matched (lines 327-333), else enrich, window and answer; a
\* TypeError of the enrichment goes to the catch of the handler.
Paginate(url, count, results, contracts) ==
    IF LoopContinues(url, count)
    THEN /\ pageCount' = count + 1
         /\ urlToFetch' = Some(UrlToFetch(url[1]))
         /\ Fetch("page", "awaitPage")
         /\ UNCHANGED << enrichedOptions, responses >>
    ELSE LET filteredOptions ==
                 FilteredOptions(results, contracts, query.expirationDate[1],
                                 query.contractType[1])
             enriched ==
                 EnrichedOptions(filteredOptions, query.contractType[1],
                                 underlyingPrice, marketOpen)
         IN  /\ pageCount' = count
             /\ IF Len(filteredOptions) = 0
                THEN /\ enrichedOptions' = << >>
                     /\ responses' = Append(responses,
                            [ status          |-> 200,
                              options         |-> << >>,
                              underlyingPrice |-> underlyingPrice,
                              marketOpen      |-> marketOpen ])
                ELSE IF \E i \in 1..Len(filteredOptions) :
                            EnrichThrows(filteredOptions[i])
                THEN /\ enrichedOptions' = << >>
                     /\ SendError(500, << "TypeError" >>)
                ELSE /\ enrichedOptions' = enriched
                     /\ responses' = Append(responses,
                            [ status          |-> 200,
                              options         |-> FilteredEnrichedOptions(
                                                      enriched, underlyingPrice),
                              underlyingPrice |-> underlyingPrice,
                              marketOpen      |-> marketOpen ])
             /\ UNCHANGED urlToFetch
             /\ Return

\* Lines 131-199: the catalog answers; the pagination starts.
ContractsReturn(r, f) ==
    /\ pc = "awaitContracts"
    /\ Settled("contracts")
    /\ IF r.threw
       THEN /\ Catch(<< "fetch failed" >>)
            /\ UNCHANGED << feed, allStrikes, contractsResponse, allContracts,
                            allSnapshotResults, nextUrl, urlToFetch, pageCount,
                            enrichedOptions >>
       ELSE /\ feed' = f
            /\ contractsResponse' = Some([ ok |-> r.ok ])
            /\ allStrikes' = IF r.ok THEN StrikesOf(r.results) ELSE << >>
            /\ allContracts' = IF r.ok
                               THEN TargetContracts(r.results, underlyingPrice)
                               ELSE << >>
            /\ allSnapshotResults' = << >>
            /\ nextUrl' = Some(polygonUrl)
            /\ Paginate(nextUrl', 0, allSnapshotResults', allContracts')
    /\ UNCHANGED << endpoint, apiKey, query, marketOpen, underlyingPrice,
                    quoteData, snapshotData, call, ui >>

\* The catalog answers for the requested expiration and type, and the feed
\* the pagination will walk is the provider's.
CatalogReturns ==
    /\ pc = "awaitContracts"
    /\ \E r \in CatalogResponses(query.expirationDate[1], query.contractType[1]),
          f \in Feeds : ContractsReturn(r, f)

\* Lines 199-222 and the loop head again: a snapshot page answers.
PageReturns ==
    /\ pc = "awaitPage"
    /\ Settled("page")
    /\ LET response == FeedResponse(feed, urlToFetch[1])
       IN  IF response.threw
           THEN /\ Catch(<< "fetch failed" >>)
                /\ UNCHANGED << allSnapshotResults, nextUrl, urlToFetch,
                                pageCount, enrichedOptions >>
           ELSE IF NotOk(response)
           THEN /\ Catch(<< "Polygon API error", response.status, response.text >>)
                /\ UNCHANGED << allSnapshotResults, nextUrl, urlToFetch,
                                pageCount, enrichedOptions >>
           ELSE /\ allSnapshotResults' =
                       IF Len(response.results) > 0
                       THEN allSnapshotResults \o response.results
                       ELSE allSnapshotResults
                /\ nextUrl' = response.next_url
                /\ Paginate(nextUrl', pageCount, allSnapshotResults', allContracts)
    /\ UNCHANGED << endpoint, apiKey, query, feed, marketOpen, underlyingPrice,
                    quoteData, snapshotData, allStrikes, contractsResponse,
                    allContracts, call, ui >>

-----------------------------------------------------------------------------
(* GET /api/expiration-dates                                               *)

\* Lines 487-489, had the dates of the Set not been sorted: each date once,
\* in the order of its first snapshot.
UniqueSortedDates_Unsorted(results) ==
    LET dates == [ i \in 1..Len(results) |-> results[i].details.expiration_date ]
        first == { i \in 1..Len(dates) : \A j \in 1..(i - 1) : dates[j] # dates[i] }
        F[i \in 0..Len(dates)] ==
            IF i = 0 THEN << >>
            ELSE IF i \in first THEN Append(F[i - 1], dates[i]) ELSE F[i - 1]
    IN  F[Len(dates)]

\* Lines 487-489: [...new Set(results.map(o => o.details.expiration_date))].sort()
UniqueSortedDates(results) ==
    LET dates == { results[i].details.expiration_date : i \in 1..Len(results) }
        Pick[S \in SUBSET dates] ==
            IF S = {} THEN << >>
            ELSE LET least == CHOOSE d \in S : \A e \in S : d <= e
                 IN  << least >> \o Pick[S \ { least }]
    IN  Pick[dates]

\* Lines 459-474: app.get('/api/expiration-dates') up to its fetch.
ExpirationDatesRequest(q, f) ==
    /\ pc = "idle"
    /\ endpoint' = "expiration-dates"
    /\ query' = q
    /\ IF ~Present(q.ticker)
       THEN /\ SendError(400, << "Missing required parameter: ticker" >>)
            /\ Return
            /\ UNCHANGED << feed, urlToFetch >>
       ELSE IF ApiKeyMissing
       THEN /\ SendError(500, << "API key not configured" >>)
            /\ Return
            /\ UNCHANGED << feed, urlToFetch >>
       ELSE /\ feed' = f
            /\ urlToFetch' = Some(polygonUrl)
            /\ Fetch("page", "awaitExpirations")
            /\ UNCHANGED responses
    /\ UNCHANGED << apiKey, marketOpen, underlyingPrice, quoteData, snapshotData,
                    allStrikes, contractsResponse, allContracts,
                    allSnapshotResults, nextUrl, pageCount, enrichedOptions,
                    returned, call, ui >>

\* Lines 472-514: the first snapshot page answers.
ExpirationsReturn ==
    /\ pc = "awaitExpirations"
    /\ Settled("page")
    /\ LET response == FeedResponse(feed, urlToFetch[1])
       IN  IF response.threw
           THEN Catch(<< "fetch failed" >>)
           ELSE IF NotOk(response)
           THEN Catch(<< "Polygon API error", response.status >>)
           ELSE IF Len(response.results) = 0
           THEN /\ responses' = Append(responses,
                       [ status |-> 200, expirationDates |-> << >> ])
                /\ Return
           ELSE /\ responses' = Append(responses,
                       [ status |-> 200,
                         expirationDates |->
                             LET dates == UniqueSortedDates(response.results)
                             IN  [ i \in 1..Len(dates) |-> [ date |-> dates[i] ] ] ])
                /\ Return
    /\ UNCHANGED << endpoint, apiKey, query, feed, marketOpen, underlyingPrice,
                    quoteData, snapshotData, allStrikes, contractsResponse,
                    allContracts, allSnapshotResults, nextUrl, urlToFetch,
                    pageCount, enrichedOptions, call, ui >>

-----------------------------------------------------------------------------
(* The specification.                                                      *)

\* A request arrives.
Request ==
    \/ \E q \in OptionsQueries, mOpen \in BOOLEAN : OptionsRequest(q, mOpen)
    \/ \E q \in ExpirationDatesQueries, f \in Feeds : ExpirationDatesRequest(q, f)

\* An awaited fetch settles and the handler runs to its next await or its end.
Continue ==
    \/ \E r \in PrevResponses : PrevReturns(r)
    \/ \E r \in SnapshotResponses : SnapshotReturns(r)
    \/ FetchContracts
    \/ CatalogReturns
    \/ PageReturns
    \/ ExpirationsReturn

Next == Request \/ Continue

Spec == Init /\ [][Next]_vars

-----------------------------------------------------------------------------
(* The helper functions called on their own, on arguments the handler may  *)
(* or may not pass them: the percent computations of the server and of the *)
(* page (App.jsx), and the market clock.                                   *)

\* Lines 145-154 of App.jsx.  base may be missing: Number(null) is 0 and
\* Number(undefined) is NaN, and the test catches both.
computeChange(current, base) ==
    IF ~IsFinite(current) \/ base = Null \/ ~IsFinite(base[1]) \/ base[1].num = 0
    THEN [ change |-> Null, changePercent |-> Null ]
    ELSE LET change == Minus(current, base[1])
         IN  [ change        |-> Some(change),
               changePercent |-> Some(Times(Divide(change, base[1]), Num(100))) ]

\* The numbers a helper is called on.
Numbers == { NaN, Infinity, NegInfinity, Num(0), Num(1), Num(3), Num(-2) }

MaybeNumbers == { Null } \cup { Some(n) : n \in Numbers }

\* The instants and the server time zones the clock is read at: Los Angeles,
\* New York, UTC and Tokyo.
Instants == [ day : 0..6, minutes : { 0, 569, 570, 571, 900, 959, 960, 1439 } ]

Zones == { -180, 0, 300, 840 }

HelperCalls ==
    [ fn : { "calculatePercentChange" }, args : Numbers \X MaybeNumbers,
      result : { Null } ]
    \cup
    [ fn : { "calculateToBreakeven" }, args : MaybeNumbers \X Numbers,
      result : { Null } ]
    \cup
    [ fn : { "computeChange" }, args : Numbers \X MaybeNumbers,
      result : { Null } ]
    \cup
    [ fn : { "isMarketOpen" }, args : Instants \X Zones, result : { Null } ]

HelperInit ==
    /\ Idle(TRUE)
    /\ call \in HelperCalls
    /\ ui = Page

\* The function returns.
Returns(fn, value) ==
    /\ call.fn = fn
    /\ call.result = Null
    /\ call' = [ call EXCEPT !.result = Some(value) ]
    /\ UNCHANGED << pc, endpoint, apiKey, query, feed, marketOpen,
                    underlyingPrice, quoteData, snapshotData, allStrikes,
                    contractsResponse, allContracts, allSnapshotResults,
                    nextUrl, urlToFetch, pageCount, enrichedOptions, responses,
                    issued, returned, ui >>

PercentChangeReturns ==
    Returns("calculatePercentChange",
            calculatePercentChange(call.args[1], call.args[2]))

ToBreakevenReturns ==
    Returns("calculateToBreakeven",
            calculateToBreakeven(call.args[1], call.args[2]))

ComputeChangeReturns ==
    Returns("computeChange", computeChange(call.args[1], call.args[2]))

MarketOpenReturns ==
    Returns("isMarketOpen", isMarketOpen(call.args[1], call.args[2]))

HelperNext ==
    \/ PercentChangeReturns
    \/ ToBreakevenReturns
    \/ ComputeChangeReturns
    \/ MarketOpenReturns

HelperSpec == HelperInit /\ [][HelperNext]_vars

-----------------------------------------------------------------------------
(* The page (App.jsx): the ticker input and its debounce, the selects, and *)
(* the fetches they start, which settle in any order.                      *)

\* The most fetches one session of the page starts.
MaxFetches == 3

\* What is typed into the ticker input.
Typed == { "", "aapl", "MSFT", "msft " }

toUpperCase(s) ==
    CASE s = "aapl"  -> "AAPL"
      [] s = "msft " -> "MSFT "
      [] OTHER       -> s

trim(s) ==
    CASE s = "MSFT " -> "MSFT"
      [] OTHER       -> s

\* Lines 446-450 of server.js as the page receives them: the options of the
\* requested contract (one record stands for them, or none), the price of
\* the requested ticker, no `underlying`.
OptionsData(request) ==
    [ ok : { TRUE },
      error : { Null },
      options : { Null, Some(<< >>),
                  Some(<< [ ticker         |-> request.ticker,
                            expirationDate |-> request.expirationDate[1],
                            contractType   |-> request.contractType ] >>) },
      underlying : { Null },
      underlyingPrice : { Some(IF request.ticker = "AAPL"
                               THEN MidStrike ELSE MidStrike + 1) },
      marketOpen : { Null, Some(TRUE) } ]
    \cup
    [ ok : { FALSE },
      error : { Null, Some("API key not configured") },
      options : { Null }, underlying : { Null }, underlyingPrice : { Null },
      marketOpen : { Null } ]

\* Line 515 of server.js as the page receives it, or a failure.
ExpirationDatesData ==
    { [ ok |-> TRUE,  expirationDates |-> Some(ExpirationDates) ],
      [ ok |-> TRUE,  expirationDates |-> Null ],
      [ ok |-> FALSE, expirationDates |-> Null ] }

\* Lines 80-85: fetchExpirationDates up to its await.
fetchExpirationDates(u, t) ==
    [ u EXCEPT !.expirationDates = << >>,
               !.fetched  = @ + 1,
               !.fetching = @ \cup { [ id             |-> u.fetched + 1,
                                       path           |-> "expiration-dates",
                                       ticker         |-> t,
                                       expirationDate |-> Null,
                                       contractType   |-> "" ] } ]

\* Lines 95-101: fetchOptions up to its await; the URL holds the expiration
\* date and the type of the render that started it.
fetchOptions(u, t) ==
    [ u EXCEPT !.loading  = TRUE,
               !.error    = Null,
               !.fetched  = @ + 1,
               !.fetching = @ \cup { [ id             |-> u.fetched + 1,
                                       path           |-> "options",
                                       ticker         |-> t,
                                       expirationDate |-> u.expirationDate,
                                       contractType   |-> u.contractType ] } ]

\* Lines 47-51: the debounce effect; the timer of the render before is
\* cleared.
DebounceEffect(u) == [ u EXCEPT !.timer = Some(toUpperCase(trim(u.ticker))) ]

\* Lines 54-61: the reset effect.
ResetEffect(u) ==
    [ u EXCEPT !.expirationDates = << >>,
               !.expirationDate  = Null,
               !.options         = << >>,
               !.underlyingPrice = Null,
               !.underlying      = Null,
               !.error           = Null ]

\* Lines 64-66.
ExpirationDatesEffect(u) ==
    IF u.debouncedTicker # ""
    THEN fetchExpirationDates(u, u.debouncedTicker)
    ELSE u

\* Lines 69-78.
OptionsEffect(u) ==
    IF u.debouncedTicker # "" /\ u.expirationDate # Null /\ u.contractType # ""
    THEN fetchOptions(u, u.debouncedTicker)
    ELSE [ u EXCEPT !.options         = << >>,
                    !.underlyingPrice = Null,
                    !.underlying      = Null ]

\* The page comes to state u, the server and the helpers untouched.
Render(u) ==
    /\ u.fetched <= MaxFetches
    /\ ui' = u
    /\ UNCHANGED << pc, endpoint, apiKey, query, feed, marketOpen,
                    underlyingPrice, quoteData, snapshotData, allStrikes,
                    contractsResponse, allContracts, allSnapshotResults,
                    nextUrl, urlToFetch, pageCount, enrichedOptions, responses,
                    issued, returned, call >>

\* Line 309: the ticker input changes; the effects on [ticker] run, and the
\* options effect when the reset changed the expiration date.
TickerTyped(value) ==
    /\ toUpperCase(value) # ui.ticker
    /\ LET typed == [ ui EXCEPT !.ticker = toUpperCase(value) ]
           reset == ResetEffect(DebounceEffect(typed))
       IN  Render(IF reset.expirationDate # ui.expirationDate
                  THEN OptionsEffect(reset)
                  ELSE reset)

\* Line 49: the debounce timer fires; the effects on [debouncedTicker] run
\* when it changed.
DebounceFires ==
    /\ ui.timer # Null
    /\ LET debounced == [ ui EXCEPT !.debouncedTicker = ui.timer[1],
                                    !.timer = Null ]
       IN  Render(IF debounced.debouncedTicker # ui.debouncedTicker
                  THEN OptionsEffect(ExpirationDatesEffect(debounced))
                  ELSE debounced)

\* Lines 400-401: an expiration date, or none, is chosen in the select.
ExpirationDateChosen(date) ==
    /\ ui.ticker # ""
    /\ Len(ui.expirationDates) > 0
    /\ date \in { Null } \cup { Some(d) : d \in Range(ui.expirationDates) }
    /\ date # ui.expirationDate
    /\ Render(OptionsEffect([ ui EXCEPT !.expirationDate = date ]))

\* Lines 382 and 389: the Call or the Put button.
ContractTypeChosen(type) ==
    /\ type # ui.contractType
    /\ Render(OptionsEffect([ ui EXCEPT !.contractType = type ]))

\* Lines 86-92: the fetch of the expiration dates settles.
ExpirationDatesSettle(request, data) ==
    /\ request \in ui.fetching
    /\ request.path = "expiration-dates"
    /\ LET settled == [ ui EXCEPT !.fetching = @ \ { request } ]
       IN  Render(IF data.ok
                  THEN [ settled EXCEPT !.expirationDates =
                             IF data.expirationDates # Null
                             THEN data.expirationDates[1] ELSE << >> ]
                  ELSE [ settled EXCEPT !.error =
                             Some("Failed to fetch expiration dates") ])

\* Lines 102-117: the fetch of the options settles.
OptionsSettle(request, data) ==
    /\ request \in ui.fetching
    /\ request.path = "options"
    /\ LET settled == [ ui EXCEPT !.fetching = @ \ { request },
                                  !.loading  = FALSE ]
       IN  Render(IF data.ok
                  THEN [ settled EXCEPT
                           !.options = IF data.options # Null
                                       THEN data.options[1] ELSE << >>,
                           !.underlying = data.underlying,
                           !.underlyingPrice =
                               IF data.underlying # Null
                                  /\ data.underlying[1].price # Null
                               THEN data.underlying[1].price
                               ELSE data.underlyingPrice,
                           !.marketOpen = data.marketOpen # Null ]
                  ELSE [ settled EXCEPT
                           !.error = IF data.error # Null THEN data.error
                                     ELSE Some("Failed to fetch options"),
                           !.options = << >> ])

UiInit ==
    /\ Idle(TRUE)
    /\ call = NoCall
    /\ ui = Page

UiNext ==
    \/ \E value \in Typed : TickerTyped(value)
    \/ DebounceFires
    \/ \E date \in { Null } \cup { Some(d) : d \in Range(ExpirationDates) } :
          ExpirationDateChosen(date)
    \/ \E type \in Range(ContractTypes) : ContractTypeChosen(type)
    \/ \E request \in ui.fetching, data \in ExpirationDatesData :
          ExpirationDatesSettle(request, data)
    \/ \E request \in ui.fetching :
          /\ request.path = "options"
          /\ \E data \in OptionsData(request) : OptionsSettle(request, data)

UiSpec == UiInit /\ [][UiNext]_vars

-----------------------------------------------------------------------------
(* Properties.                                                             *)

\* The request was answered with status 200 by /api/options.
OptionsAnswered ==
    /\ endpoint = "options"
    /\ Len(responses) = 1
    /\ responses[1].status = 200

\* The strikes of a sequence of enriched options.
StrikePrices(options) == { options[i].strikePrice : i \in 1..Len(options) }

\* How many of the options have their strike below (or at or above) price.
CountBelow(options, price) ==
    Cardinality({ i \in 1..Len(options) : options[i].strikePrice < price })

CountAtOrAbove(options, price) ==
    Cardinality({ i \in 1..Len(options) : options[i].strikePrice >= price })

\* The last page request was answered with a non-success status.
PageFailed ==
    /\ endpoint = "options"
    /\ pc = "done"
    /\ issued.page > 0
    /\ ~FeedResponse(feed, urlToFetch[1]).threw
    /\ ~FeedResponse(feed, urlToFetch[1]).ok

\* C1: a request that lacks a required query parameter (any of ticker,
\* expirationDate, contractType for /api/options; ticker for
\* /api/expiration-dates) is answered 400, once, and no upstream request of
\* any kind is issued for it.
C1_MissingParameterNoUpstream ==
    LET missing ==
            IF endpoint = "options"
            THEN query.ticker = Null \/ query.expirationDate = Null
                 \/ query.contractType = Null
            ELSE query.ticker = Null
    IN  (endpoint # "none" /\ missing) =>
            /\ pc = "done"
            /\ Len(responses) = 1
            /\ responses[1].status = 400
            /\ issued = NoRequests

\* /api/options was asked with a ticker and a date but no contract type.
C1_Witness ==
    /\ endpoint = "options"
    /\ apiKey
    /\ query.ticker # Null /\ query.expirationDate # Null
    /\ query.contractType = Null
    /\ pc = "done"
    /\ responses[1].status = 400

\* C2: with no API key configured, a request with all its parameters is
\* answered 500 'API key not configured' on both routes, and a request that
\* ends with that error has issued no upstream request.
C2_NoKeyNoUpstream ==
    LET complete ==
            IF endpoint = "options"
            THEN query.ticker # Null /\ query.expirationDate # Null
                 /\ query.contractType # Null
            ELSE query.ticker # Null
        refused ==
            /\ Len(responses) = 1
            /\ responses[1] = [ status |-> 500, error |-> << "API key not configured" >> ]
    IN  /\ (endpoint # "none" /\ complete /\ ~apiKey) => (pc = "done" /\ refused)
        /\ refused => issued = NoRequests

\* /api/expiration-dates was refused for the missing key.
C2_Witness ==
    /\ endpoint = "expiration-dates"
    /\ ~apiKey
    /\ Len(responses) = 1
    /\ responses[1].status = 500
    /\ issued = NoRequests

\* C3: when a snapshot page of /api/options answers with a non-success
\* status, the request ends there: the one response is 500 with that page's
\* status and body and no options, the failed page was the last page
\* requested, every page requested has answered, and nothing more happens.
C3_PageFailureAborts ==
    PageFailed =>
        LET page == FeedResponse(feed, urlToFetch[1])
        IN  /\ responses =
                   << [ status |-> 500,
                        error  |-> << "Polygon API error", page.status, page.text >> ] >>
            /\ issued.page = pageCount
            /\ returned.page = issued.page
            /\ ~ENABLED Next

\* A later page failed after snapshots had been accumulated.
C3_Witness ==
    /\ PageFailed
    /\ pageCount > 1
    /\ Len(allSnapshotResults) > 0
    /\ responses[1].status = 500

\* C4: with a non-empty set of target contracts, a page request is only
\* outstanding while some target contract has not yet been observed among
\* the accumulated snapshots.
C4_EarlyExit ==
    LET observed == { allSnapshotResults[i].details.ticker :
                        i \in 1..Len(allSnapshotResults) }
        targets  == { allContracts[i].ticker : i \in 1..Len(allContracts) }
    IN  (endpoint = "options" /\ pc = "awaitPage" /\ targets # {}) =>
            ~(targets \subseteq observed)

\* C5: one /api/options request issues at most maxPages page requests,
\* whatever cursors the feed returns, and its pagination ends once every
\* fetch settles: each page answer is followed by at most one new page
\* request, which raises the page count, and the count never passes
\* maxPages.
C5_PageCeiling ==
    endpoint = "options" =>
        /\ issued.page <= maxPages
        /\ issued.page = pageCount
        /\ returned.page = IF pc = "awaitPage" THEN issued.page - 1 ELSE issued.page

\* The ceiling was reached while the feed still offered a cursor.
C5_Witness ==
    /\ endpoint = "options"
    /\ pc = "done"
    /\ issued.page = maxPages
    /\ returned.page = maxPages
    /\ nextUrl # Null
    /\ feed.tail = "cycle"

NearestSelected(all, selected, price) ==
    LET below(S)     == { x \in S : x < price }
        atOrAbove(S) == { x \in S : x >= price }
        A == Range(all)
        S == Range(selected)
    IN  /\ S \subseteq A
        /\ \A x \in below(A) \ S : \A y \in below(S) : x < y
        /\ \A x \in atOrAbove(A) \ S : \A y \in atOrAbove(S) : x > y
        /\ Cardinality({ i \in 1..Len(all) : all[i] < price }) <= halfWidth
               => below(A) \subseteq S
        /\ Cardinality({ i \in 1..Len(all) : all[i] >= price }) <= halfWidth
               => atOrAbove(A) \subseteq S

\* C7: with a known price, the strikes of the target contracts are the
\* strikes of the catalog nearest the price on each side, and the strikes
\* of the response are the strikes of the enriched options nearest the price
\* on each side.
C7_NearestStrikes ==
    /\ (endpoint = "options" /\ pc \in { "awaitPage", "done" }
            /\ underlyingPrice # Null /\ Len(allStrikes) > 0) =>
           NearestSelected(allStrikes,
                           [ i \in 1..Len(allContracts) |-> allContracts[i].strike_price ],
                           underlyingPrice[1])
    /\ (OptionsAnswered /\ underlyingPrice # Null) =>
           NearestSelected(
               [ i \in 1..Len(enrichedOptions) |-> enrichedOptions[i].strikePrice ],
               [ i \in 1..Len(responses[1].options) |->
                     responses[1].options[i].strikePrice ],
               underlyingPrice[1])

\* The catalog listed more than halfWidth strikes on each side of the
\* price, halfWidth on each side became targets, and the response holds a
\* snapshot of every target.
C7_Witness ==
    /\ OptionsAnswered
    /\ underlyingPrice = Some(MidStrike + 1)
    /\ Cardinality({ i \in 1..Len(allStrikes) : allStrikes[i] < MidStrike + 1 })
           > halfWidth
    /\ Cardinality({ i \in 1..Len(allStrikes) : allStrikes[i] >= MidStrike + 1 })
           > halfWidth
    /\ Len(allContracts) = 2 * halfWidth
    /\ StrikePrices(responses[1].options)
           = { allContracts[i].strike_price : i \in 1..Len(allContracts) }

\* C8: the options of every 200 response of /api/options are in descending
\* order of strike.
C8_SortedDescending ==
    OptionsAnswered =>
        \A i \in 1..(Len(responses[1].options) - 1) :
            responses[1].options[i].strikePrice
                >= responses[1].options[i + 1].strikePrice

\* A windowed response with strikes on both sides of the price.
C8_Witness ==
    /\ OptionsAnswered
    /\ Truthy(underlyingPrice)
    /\ CountBelow(responses[1].options, underlyingPrice[1]) > 1
    /\ CountAtOrAbove(responses[1].options, underlyingPrice[1]) > 1

\* No accumulated snapshot matches the request: by contract identity when
\* there are target contracts, by expiration date and type otherwise.
NoSnapshotMatches ==
    \A i \in 1..Len(allSnapshotResults) :
        LET d == allSnapshotResults[i].details
        IN  IF Len(allContracts) > 0
            THEN \A j \in 1..Len(allContracts) : allContracts[j].ticker # d.ticker
            ELSE ~(/\ d.expiration_date = query.expirationDate[1]
                   /\ toLowerCase(d.contract_type) = toLowerCase(query.contractType[1]))

\* C9: when the pagination has ended without a failed page and no snapshot
\* matches the request, the response is 200 with an empty options sequence.
C9_EmptyResult ==
    (endpoint = "options" /\ pc = "done" /\ issued.page > 0
        /\ FeedResponse(feed, urlToFetch[1]).ok /\ NoSnapshotMatches) =>
            responses = << [ status          |-> 200,
                             options         |-> << >>,
                             underlyingPrice |-> underlyingPrice,
                             marketOpen      |-> marketOpen ] >>

\* The feed delivered snapshots, none of them one of the target contracts.
C9_Witness ==
    /\ endpoint = "options"
    /\ pc = "done"
    /\ Len(allContracts) > 0
    /\ Len(allSnapshotResults) > 0
    /\ NoSnapshotMatches
    /\ Len(responses) = 1
    /\ responses[1].status = 200

\* C10: when the stock snapshot source has answered, the resolved price is
\* lastTrade if it is present and the market is open or it differs from the
\* day's close; else the day's close if present; else the previous close if
\* present.
C10_PriceLadder ==
    (pc = "priceResolved" /\ snapshotData # Null /\ snapshotData[1].ok) =>
        LET snapshot  == snapshotData[1]
            lastTrade == IF snapshot.lastTrade # Null
                         THEN Some(snapshot.lastTrade[1].p) ELSE Null
            dayClose  == IF snapshot.day # Null THEN snapshot.day[1].c ELSE Null
            prevClose == IF quoteData # Null /\ quoteData[1].ok
                            /\ Len(quoteData[1].results) > 0
                         THEN quoteData[1].results[1].c ELSE Null
        IN  IF lastTrade # Null /\ (marketOpen \/ lastTrade # dayClose)
            THEN underlyingPrice = lastTrade
            ELSE IF dayClose # Null
            THEN underlyingPrice = dayClose
            ELSE prevClose # Null => underlyingPrice = prevClose

\* C11: when the stock snapshot source answers with a non-success status,
\* the resolved price is the previous close of the /prev source, and the 200
\* response of the request carries an underlying quote (with its provenance
\* and null change fields).
C11_DegradedFallback ==
    /\ (pc = "priceResolved" /\ snapshotData # Null
            /\ ~snapshotData[1].threw /\ ~snapshotData[1].ok) =>
           LET prevClose == IF quoteData[1].ok /\ Len(quoteData[1].results) > 0
                            THEN quoteData[1].results[1].c ELSE Null
           IN  underlyingPrice = prevClose
    /\ OptionsAnswered => "underlying" \in DOMAIN responses[1]

\* C12: in every 200 response of /api/options, the breakeven of a record
\* whose contract is a call is its strike plus its option price, and the
\* breakeven of a record whose contract is a put is its strike minus its
\* option price, an option price of zero included.
C12_Breakeven ==
    OptionsAnswered =>
        \A i \in 1..Len(responses[1].options) :
            LET o == responses[1].options[i]
            IN  /\ toLowerCase(o.contractType) \in { "call", "put" }
                /\ toLowerCase(o.contractType) = "call"
                       => o.breakeven = o.strikePrice + o.optionPrice
                /\ toLowerCase(o.contractType) = "put"
                       => o.breakeven = o.strikePrice - o.optionPrice

\* A response of puts, one with an option price of zero and one with a
\* breakeven below its strike.
C12_Witness ==
    /\ OptionsAnswered
    /\ \E i, j \in 1..Len(responses[1].options) :
           /\ responses[1].options[i].contractType = "put"
           /\ responses[1].options[i].optionPrice = 0
           /\ responses[1].options[i].breakeven = responses[1].options[i].strikePrice
           /\ responses[1].options[j].contractType = "put"
           /\ responses[1].options[j].breakeven < responses[1].options[j].strikePrice

\* The day bars of the accumulated snapshots of the contract of a record.
DayBarsOf(option) ==
    { allSnapshotResults[j].day[1] :
        j \in { k \in 1..Len(allSnapshotResults) :
                  allSnapshotResults[k].details.ticker = option.ticker } }

\* C13: the option price of every record of a 200 response is the bid of
\* its snapshot exactly when the market is open and the snapshot has a bid
\* (a bid of zero is a bid); otherwise it is the close, or 0 when the close
\* is missing; and the price change of the record is derived from that
\* option price.
C13_OptionPrice ==
    OptionsAnswered =>
        \A i \in 1..Len(responses[1].options) :
            LET o == responses[1].options[i]
            IN  /\ DayBarsOf(o) # {}
                /\ \A day \in DayBarsOf(o) :
                       /\ (responses[1].marketOpen /\ day.bid # Null)
                              => o.optionPrice = day.bid[1]
                       /\ (~responses[1].marketOpen \/ day.bid = Null)
                              => o.optionPrice =
                                     IF day.close # Null THEN day.close[1] ELSE 0
                       /\ o.priceChange = o.optionPrice -
                              (IF day.previous_close # Null
                               THEN day.previous_close[1] ELSE 0)

\* With the market open, a record priced at its bid of zero although its
\* snapshot has a close, and a record without a bid priced at its close.
C13_Witness ==
    /\ OptionsAnswered
    /\ \E i, j \in 1..Len(responses[1].options) :
           LET o == responses[1].options[i]
               q == responses[1].options[j]
           IN  /\ responses[1].marketOpen
               /\ o.bidPrice = Some(0) /\ o.optionPrice = 0
               /\ \E day \in DayBarsOf(o) : day.close # Null /\ day.close[1] > 0
               /\ q.bidPrice = Null /\ q.optionPrice > 0

\* The accumulated snapshots that match the request: by contract identity
\* when there are target contracts, by expiration date and type otherwise.
MatchingSnapshots ==
    { i \in 1..Len(allSnapshotResults) :
        LET d == allSnapshotResults[i].details
        IN  IF Len(allContracts) > 0
            THEN \E j \in 1..Len(allContracts) : allContracts[j].ticker = d.ticker
            ELSE /\ d.expiration_date = query.expirationDate[1]
                 /\ toLowerCase(d.contract_type) = toLowerCase(query.contractType[1]) }

\* C14: when the pagination has ended without a failed page and some
\* snapshot matches, the request is answered 200 and every matched snapshot,
\* one without a day bar or without greeks included, has become a record; a
\* missing numeric field of the snapshot is 0 in its record, except the bid,
\* which is null when missing and 0 when 0.
C14_EnrichmentTotal ==
    (endpoint = "options" /\ pc = "done" /\ issued.page > 0
        /\ FeedResponse(feed, urlToFetch[1]).ok /\ MatchingSnapshots # {}) =>
            /\ OptionsAnswered
            /\ Len(enrichedOptions) = Cardinality(MatchingSnapshots)
            /\ \A i \in MatchingSnapshots :
                   LET snapshot == allSnapshotResults[i]
                   IN  \E k \in 1..Len(enrichedOptions) :
                           LET o == enrichedOptions[k]
                           IN  /\ o.ticker = snapshot.details.ticker
                               /\ snapshot.greeks = Null =>
                                      o.delta = 0 /\ o.gamma = 0
                                          /\ o.theta = 0 /\ o.vega = 0
                               /\ snapshot.open_interest = Null => o.openInterest = 0
                               /\ snapshot.day # Null =>
                                      /\ snapshot.day[1].volume = Null => o.volume = 0
                                      /\ o.bidPrice = snapshot.day[1].bid

\* C15: a percent computation that has returned, called with a finite
\* current value, has not yielded NaN or Infinity, and for a base that is
\* zero, missing or not finite it has returned its sentinel: 0 from
\* calculatePercentChange (base: previous) and from calculateToBreakeven
\* (base: currentPrice), null change and null percent from computeChange.
C15_NoDivisionByBadBase ==
    LET BadBase(b) == b = Null \/ ~IsFinite(b[1]) \/ b[1].num = 0
    IN  /\ (call.fn = "calculatePercentChange" /\ call.result # Null
                /\ IsFinite(call.args[1])) =>
               /\ IsFinite(call.result[1])
               /\ BadBase(call.args[2]) => call.result[1] = Num(0)
        /\ (call.fn = "calculateToBreakeven" /\ call.result # Null
                /\ IsFinite(call.args[2])) =>
               /\ IsFinite(call.result[1])
               /\ BadBase(call.args[1]) => call.result[1] = Num(0)
        /\ (call.fn = "computeChange" /\ call.result # Null) =>
               /\ BadBase(call.args[2]) =>
                      call.result[1] = [ change |-> Null, changePercent |-> Null ]
               /\ call.result[1].change # Null =>
                      IsFinite(call.result[1].change[1])
               /\ call.result[1].changePercent # Null =>
                      IsFinite(call.result[1].changePercent[1])

\* C16: at every instant and in every server time zone, the market clock
\* answers false when the day in New York is Saturday or Sunday, and
\* otherwise true exactly when the time of day in New York is in
\* [09:30, 16:00).
C16_ExchangeLocalClock ==
    (call.fn = "isMarketOpen" /\ call.result # Null) =>
        LET now == call.args[1]
        IN  call.result[1] =
                (/\ now.day \notin { 0, 6 }
                 /\ now.minutes >= 9 * 60 + 30
                 /\ now.minutes < 16 * 60)

\* /api/expiration-dates was answered with status 200.
ExpirationDatesAnswered ==
    /\ endpoint = "expiration-dates"
    /\ Len(responses) = 1
    /\ responses[1].status = 200

\* C17: the dates of a 200 response of /api/expiration-dates are in
\* strictly ascending order (sorted, each once) and are exactly the
\* expiration dates of the snapshots of the page that was fetched; an empty
\* page gives an empty list.
C17_ExpirationDates ==
    ExpirationDatesAnswered =>
        LET results == FeedResponse(feed, urlToFetch[1]).results
            listed  == responses[1].expirationDates
        IN  /\ \A i \in 1..(Len(listed) - 1) : listed[i].date < listed[i + 1].date
            /\ { listed[i].date : i \in 1..Len(listed) }
                   = { results[i].details.expiration_date : i \in 1..Len(results) }
            /\ Len(results) = 0 => listed = << >>

\* The page listed the later expiration first, several snapshots for each
\* date, and the response lists the two dates in order.
C17_Witness ==
    /\ ExpirationDatesAnswered
    /\ LET results == FeedResponse(feed, urlToFetch[1]).results
       IN  /\ Len(results) > 2
           /\ results[1].details.expiration_date = ExpirationDates[2]
           /\ results[Len(results)].details.expiration_date = ExpirationDates[1]
    /\ responses[1].expirationDates
           = << [ date |-> ExpirationDates[1] ], [ date |-> ExpirationDates[2] ] >>

\* The upstream requests of the request that have not answered yet.
Outstanding ==
    (issued.prev + issued.snapshot + issued.contracts + issued.page)
        - (returned.prev + returned.snapshot + returned.contracts + returned.page)

\* C18: within one /api/options request at most one upstream request is
\* outstanding; the stock snapshot request is issued only after the /prev
\* request has answered, the catalog request only after every price request
\* has answered, the first page request only after the catalog request has
\* answered, and a further page request only after the page before it has
\* answered.
C18_Sequential ==
    endpoint = "options" =>
        /\ Outstanding \in { 0, 1 }
        /\ Outstanding = 1 <=> pc \in { "awaitPrev", "awaitSnapshot",
                                        "awaitContracts", "awaitPage" }
        /\ issued.snapshot > 0 => returned.prev = issued.prev
        /\ issued.contracts > 0 =>
               /\ returned.prev = issued.prev
               /\ returned.snapshot = issued.snapshot
        /\ issued.page > 0 => returned.contracts = issued.contracts
        /\ issued.page > 1 => returned.page >= issued.page - 1

\* The second page request is outstanding, after both price sources, the
\* catalog and the first page have answered.
C18_Witness ==
    /\ endpoint = "options"
    /\ pc = "awaitPage"
    /\ issued = [ prev |-> 1, snapshot |-> 1, contracts |-> 1, page |-> 2 ]
    /\ returned = [ prev |-> 1, snapshot |-> 1, contracts |-> 1, page |-> 1 ]

\* How many times a URL carries the API key.
KeysIn(url) == Cardinality({ i \in 1..Len(url.parts) : url.parts[i] = "apiKey" })

\* C19: the URL of every page request of /api/options, the first and every
\* continuation, carries the API key exactly once: a URL to follow that
\* lacks the key is requested with the key appended, after '&' when it has
\* a query string and after '?' when it has none, and a URL that carries
\* the key is requested as it is.
C19_KeyOnEveryPage ==
    (endpoint = "options" /\ pc = "awaitPage") =>
        LET source    == nextUrl[1]
            requested == urlToFetch[1]
        IN  /\ KeysIn(requested) = 1
            /\ requested.page = source.page
            /\ KeysIn(source) = 0 =>
                   requested.parts = source.parts \o
                       << IF \E i \in 1..Len(source.parts) : source.parts[i] = "?"
                          THEN "&" ELSE "?",
                          "apiKey" >>
            /\ KeysIn(source) > 0 => requested = source

\* A continuation without a query string is requested with '?apiKey',
\* after a continuation with a query string was requested with '&apiKey'.
C19_Witness ==
    /\ endpoint = "options"
    /\ pc = "awaitPage"
    /\ pageCount = 3
    /\ nextUrl = Some(Url(3, << >>))
    /\ urlToFetch = Some(Url(3, << "?", "apiKey" >>))

\* The accumulated snapshots of the requested expiration date and contract
\* type, the type compared without regard to case.
SnapshotsOfDateAndType ==
    { i \in 1..Len(allSnapshotResults) :
        LET d == allSnapshotResults[i].details
        IN  /\ d.expiration_date = query.expirationDate[1]
            /\ toLowerCase(d.contract_type) = toLowerCase(query.contractType[1]) }

\* C20: after the catalog has answered with a non-success status the
\* request goes on with no target contracts and requests snapshot pages;
\* when its pagination has ended without a failed page (and every snapshot
\* of the requested date and type has a day bar), the response is 200 and
\* the enriched options are exactly the snapshots of the requested date and
\* type, of which the options of the response are a part.
C20_CatalogUnavailable ==
    (endpoint = "options" /\ contractsResponse # Null /\ ~contractsResponse[1].ok) =>
        /\ allContracts = << >>
        /\ pc \in { "awaitPage", "done" }
        /\ issued.page >= 1
        /\ (pc = "done" /\ FeedResponse(feed, urlToFetch[1]).ok
                /\ \A i \in SnapshotsOfDateAndType :
                       allSnapshotResults[i].day # Null) =>
               /\ OptionsAnswered
               /\ Len(enrichedOptions) = Cardinality(SnapshotsOfDateAndType)
               /\ { enrichedOptions[k].ticker : k \in 1..Len(enrichedOptions) }
                      = { allSnapshotResults[i].details.ticker :
                            i \in SnapshotsOfDateAndType }
               /\ Range(responses[1].options) \subseteq Range(enrichedOptions)

\* The catalog was unavailable, the request asked for 'PUT', and the
\* response lists puts of the requested date.
C20_Witness ==
    /\ OptionsAnswered
    /\ contractsResponse = Some([ ok |-> FALSE ])
    /\ query.contractType = Some("PUT")
    /\ Len(responses[1].options) > 1
    /\ \A i \in 1..Len(responses[1].options) :
           /\ responses[1].options[i].contractType = "put"
           /\ responses[1].options[i].expirationDate = query.expirationDate[1]

\* The contract symbols of the target contracts.
TargetTickers == { allContracts[j].ticker : j \in 1..Len(allContracts) }

\* C21: when there is at least one target contract, every enriched option
\* and every option of the response carries the symbol of a target
\* contract, and the target contracts are the catalog contracts whose
\* strike is in the window around the price (every catalog contract when
\* no window applies): a snapshot of any other contract, whatever its
\* expiration date and type, is neither enriched nor returned.
C21_MatchedByIdentity ==
    (endpoint = "options" /\ pc = "done" /\ Len(allContracts) > 0) =>
        /\ \A k \in 1..Len(enrichedOptions) :
               enrichedOptions[k].ticker \in TargetTickers
        /\ OptionsAnswered =>
               \A k \in 1..Len(responses[1].options) :
                   responses[1].options[k].ticker \in TargetTickers
        /\ \A j \in 1..Len(allContracts) :
               /\ allContracts[j].strike_price \in Range(allStrikes)
               /\ Truthy(underlyingPrice) =>
                      allContracts[j].strike_price
                          \in Range(TargetStrikes(allStrikes, underlyingPrice[1]))

\* The catalog window left some catalog strikes out, the feed delivered
\* snapshots of the requested date and type at those strikes, and the
\* response holds options, none of them at such a strike.
C21_Witness ==
    /\ OptionsAnswered
    /\ Len(allContracts) > 0
    /\ Len(allContracts) < Len(allStrikes)
    /\ Len(responses[1].options) > 0
    /\ \E i \in 1..Len(allSnapshotResults) :
           LET d == allSnapshotResults[i].details
           IN  /\ d.expiration_date = query.expirationDate[1]
               /\ toLowerCase(d.contract_type) = toLowerCase(query.contractType[1])
               /\ d.ticker \notin TargetTickers
               /\ d.strike_price \notin StrikePrices(responses[1].options)

\* C22: with no underlying price (null), the window is applied at neither
\* place: every contract of a catalog that answered is a target, and the
\* options of a 200 response are all the enriched options, however many.
C22_NoPriceNoWindow ==
    /\ (endpoint = "options" /\ pc \in { "awaitPage", "done" }
            /\ underlyingPrice = Null
            /\ contractsResponse # Null /\ contractsResponse[1].ok) =>
           /\ Len(allContracts) = Len(allStrikes)
           /\ { allContracts[j].strike_price : j \in 1..Len(allContracts) }
                  = Range(allStrikes)
    /\ (OptionsAnswered /\ responses[1].underlyingPrice = Null) =>
           responses[1].options = enrichedOptions

\* Without a price, a catalog of more than 2 * halfWidth contracts stayed
\* whole and the response holds more than 2 * halfWidth options.
C22_Witness ==
    /\ OptionsAnswered
    /\ responses[1].underlyingPrice = Null
    /\ Len(allContracts) > 2 * halfWidth
    /\ Len(allContracts) = Len(allStrikes)
    /\ Len(responses[1].options) > 2 * halfWidth

\* C23: once the price is resolved, it is null only if every price source
\* that was asked failed (a non-success status or an exception); when a
\* source answered successfully the price is not null and is a value that
\* source or the other delivered.
C23_NullOnlyIfAllFailed ==
    pc = "priceResolved" =>
        LET Failed(r)  == r.threw \/ ~r.ok
            prev       == quoteData[1]
            answered   == \/ ~Failed(prev)
                          \/ snapshotData # Null /\ ~Failed(snapshotData[1])
            fromPrev   == IF ~Failed(prev) /\ Len(prev.results) > 0
                          THEN { prev.results[1].bp, prev.results[1].c } ELSE { }
            fromSnapshot ==
                IF snapshotData # Null /\ ~Failed(snapshotData[1])
                THEN (IF snapshotData[1].lastQuote # Null
                      THEN { snapshotData[1].lastQuote[1].bp } ELSE { })
                     \cup (IF snapshotData[1].day # Null
                           THEN { snapshotData[1].day[1].c } ELSE { })
                ELSE { }
        IN  /\ underlyingPrice = Null => ~answered
            /\ answered => underlyingPrice \in (fromPrev \cup fromSnapshot) \ { Null }

\* C24: the options of a 200 response hold one record per matched
\* contract: no two of them share a contract symbol, however often the
\* feed delivered a contract.
C24_OneRecordPerContract ==
    OptionsAnswered =>
        \A i, j \in 1..Len(responses[1].options) :
            responses[1].options[i].ticker = responses[1].options[j].ticker
                => i = j

\* C25: a request of /api/options that has run to completion has sent
\* exactly one response, of status 400, 500 or 200, whichever path it took;
\* a request still running has sent none, so no response follows the first.
C25_ExactlyOneResponse ==
    endpoint = "options" =>
        IF pc = "done"
        THEN /\ Len(responses) = 1
             /\ responses[1].status \in { 200, 400, 500 }
        ELSE responses = << >>

\* A request whose second snapshot page was refused has completed with the
\* one answer of the catch.
C25_Witness ==
    /\ endpoint = "options"
    /\ pc = "done"
    /\ returned.page = 2
    /\ Len(responses) = 1
    /\ responses[1].status = 500
    /\ responses[1].error[1] = "Polygon API error"

\* Every matched contract was delivered by the feed once.
EachMatchedOnce ==
    \A i, j \in MatchingSnapshots :
        allSnapshotResults[i].details.ticker = allSnapshotResults[j].details.ticker
            => i = j

\* C26: when the price is known, the catalog window chose the target
\* contracts and the feed delivered each matched contract once, the second
\* window removes nothing: the options of the response are the enriched
\* options, one per matched snapshot of a target contract.
C26_WindowIdempotent ==
    ( /\ OptionsAnswered
      /\ Truthy(underlyingPrice)
      /\ Len(allStrikes) > 0
      /\ Len(allContracts) > 0
      /\ EachMatchedOnce )
    => /\ responses[1].options = enrichedOptions
       /\ Len(responses[1].options) = Cardinality(MatchingSnapshots)
       /\ { responses[1].options[i].ticker : i \in 1..Len(responses[1].options) }
              = { allSnapshotResults[i].details.ticker : i \in MatchingSnapshots }

\* The catalog lists more strikes than the window holds, one of them equal
\* to the price, and all twenty windowed contracts came back once.
C26_Witness ==
    /\ OptionsAnswered
    /\ Truthy(underlyingPrice)
    /\ Len(allContracts) = 2 * halfWidth
    /\ Len(allStrikes) > 2 * halfWidth
    /\ EachMatchedOnce
    /\ Len(enrichedOptions) = 2 * halfWidth
    /\ underlyingPrice[1] \in StrikePrices(enrichedOptions)
    /\ responses[1].options = enrichedOptions

\* The snapshots of the first n pages of the feed, walked from url.
RECURSIVE FirstPages(_, _)
FirstPages(url, n) ==
    IF n = 0 \/ url = Null
    THEN << >>
    ELSE LET response == FeedResponse(feed, UrlToFetch(url[1]))
         IN  response.results \o FirstPages(response.next_url, n - 1)

\* The pagination was left after a page that answered with a cursor.
CeilingReached ==
    /\ endpoint = "options"
    /\ pc = "done"
    /\ issued.page > 0
    /\ FeedResponse(feed, urlToFetch[1]).ok
    /\ nextUrl # Null

\* C27: when the pagination ends with a cursor still on offer, exactly
\* maxPages pages were fetched and the request is answered 200 (the
\* ceiling raises no error); the options are built from the snapshots of
\* those maxPages pages only, and the response has the fields of any other
\* 200 response, none of which says that the feed was cut short.
C27_CeilingIsNotAnError ==
    CeilingReached =>
        /\ pageCount = maxPages
        /\ returned.page = maxPages
        /\ allSnapshotResults = FirstPages(Some(polygonUrl), maxPages)
        /\ Len(responses) = 1
        /\ \/ /\ responses[1].status = 200
              /\ DOMAIN responses[1] =
                     { "status", "options", "underlyingPrice", "marketOpen" }
              /\ responses[1].options =
                     FilteredEnrichedOptions(
                         EnrichedOptions(
                             FilteredOptions(FirstPages(Some(polygonUrl), maxPages),
                                             allContracts,
                                             query.expirationDate[1],
                                             query.contractType[1]),
                             query.contractType[1], underlyingPrice, marketOpen),
                         underlyingPrice)
           \/ /\ responses[1].status = 500
              /\ responses[1].error = << "TypeError" >>

\* A feed that never ends was cut at the ceiling and options were returned.
C27_Witness ==
    /\ CeilingReached
    /\ feed.tail = "endless"
    /\ pageCount = maxPages
    /\ OptionsAnswered
    /\ Len(responses[1].options) > 0

\* The fetches of /api/options of the page that have not settled.
OptionsInFlight == { request \in ui.fetching : request.path = "options" }

\* C28: on the page, loading is false only when no fetch of /api/options
\* is in flight, and once none is in flight the options and the underlying
\* price shown are those of the selection in force (ticker, expiration
\* date, contract type): no answer to an earlier selection is left on
\* display.
C28_LatestSelectionShown ==
    /\ ~ui.loading => OptionsInFlight = { }
    /\ OptionsInFlight = { } =>
          /\ \A i \in 1..Len(ui.options) :
                /\ ui.options[i].ticker = ui.debouncedTicker
                /\ Some(ui.options[i].expirationDate) = ui.expirationDate
                /\ ui.options[i].contractType = ui.contractType
          /\ ui.underlyingPrice # Null =>
                ui.underlyingPrice[1] =
                    IF ui.debouncedTicker = "AAPL" THEN MidStrike ELSE MidStrike + 1

====
